---- MODULE Spec2Model ----
(***************************************************************************)
(* Model of the hotel translation relay (server.js + sarvam-client.js,     *)
(* both in src/hotel_translation_backend.js).                              *)
(*                                                                         *)
(* State: the room registry (activeRooms), the session map (userRoles),    *)
(* the socket.io room membership of every socket, the pending cleanup      *)
(* timers, the wall clock, and the messages whose async handler is         *)
(* suspended at a provider call.  One action per socket event handler,     *)
(* HTTP route, timer callback and provider completion.                     *)
(***************************************************************************)
EXTENDS Integers, FiniteSets, Sequences, TLC

VARIABLES
    connState,    \* socket id -> "new" | "open" | "closed"
    activeRooms,  \* room id -> [hotelName, createdAt, users]   (server.js:103)
    userRoles,    \* socket id -> [room, role, language]        (server.js:104)
    joined,       \* socket id -> set of socket.io rooms the socket is in
    generated,    \* room ids handed out by POST /api/generate-room
    timers,       \* pending cleanup timers, in the order they were set
    now,          \* wall clock, in ms
    msgs,         \* the audio/text messages received so far, in arrival order
    log,          \* message -> the events emitted for it, in emission order
    translated,   \* the messages whose translation was broadcast, in that order
    out,          \* the events emitted by the last handler, in emission order
    lastOp,       \* which handler ran last, and on what
    emptySince,   \* room id -> time since when it is in the registry and empty
    client        \* SarvamClient method -> its last call: in flight or settled

vars == <<connState, activeRooms, userRoles, joined, generated, timers, now,
          msgs, log, translated, out, lastOp, emptySince, client>>

-----------------------------------------------------------------------------
(* Bounds of the model *)

\* number of clock ticks that make up the cleanup delay
TicksPerDelay == 2
\* number of clock ticks the model lets pass
MaxTicks == 3
\* number of audio/text messages the model lets the clients send
MaxMsgs == 2

-----------------------------------------------------------------------------
(* Inputs *)

\* socket ids
Conns == {"c1", "c2"}
\* JavaScript's undefined (an absent payload field, a Map miss)
Undefined == "undefined"
\* room ids a client may name in join_room without having been given them;
\* "" is a falsy room id
ClientRooms == {"", "r1", "r2"}
\* room ids POST /api/generate-room can hand out
GenRooms == {"g1"}
RoomIds == ClientRooms \cup GenRooms
Roles == {"guest", "host"}
\* the language field of a join_room payload
JoinLanguages == {Undefined, "en-IN"}
\* the hotelName field of a generate-room request
HotelNames == {"Taj"}

\* a value that `if (v)` / `v || d` treats as false
Falsy(v) == v \in {Undefined, ""}

\* setTimeout(..., 5 * 60 * 1000)
CleanupDelayMs == 5 * 60 * 1000
TickMs == CleanupDelayMs \div TicksPerDelay

\* languageNames[code] || code
LanguageName(code) ==
    CASE code = "hi-IN" -> "Hindi"
      [] code = "bn-IN" -> "Bengali"
      [] code = "ta-IN" -> "Tamil"
      [] code = "te-IN" -> "Telugu"
      [] code = "mr-IN" -> "Marathi"
      [] code = "gu-IN" -> "Gujarati"
      [] code = "kn-IN" -> "Kannada"
      [] code = "ml-IN" -> "Malayalam"
      [] code = "pa-IN" -> "Punjabi"
      [] code = "or-IN" -> "Odia"
      [] code = "en-IN" -> "English"
      [] OTHER -> code

-----------------------------------------------------------------------------
(* Emitting events *)

\* the sockets in socket.io room `room`
Members(jn, room) == {c \in Conns : room \in jn[c]}

\* io.to(room).emit(ev, data)
ToRoom(jn, room, ev, data) ==
    [ev |-> ev, target |-> room, to |-> Members(jn, room), data |-> data]

\* socket.to(room).emit(ev, data): the room without the socket itself
ToOthers(jn, c, room, ev, data) ==
    [ev |-> ev, target |-> room, to |-> Members(jn, room) \ {c}, data |-> data]

\* socket.emit(ev, data); a closed socket receives nothing
ToSocket(cs, c, ev, data) ==
    [ev |-> ev, target |-> c, to |-> IF cs[c] = "open" THEN {c} ELSE {},
     data |-> data]

-----------------------------------------------------------------------------
(* The room registry *)

\* activeRooms.get(room).users.add(c)
AddUser(rooms, room, c) ==
    [rooms EXCEPT ![room].users = @ \cup {c}]

\* if (activeRooms.has(room)) activeRooms.get(room).users.delete(c)
DeleteUser(rooms, room, c) ==
    IF room \in DOMAIN rooms
    THEN [rooms EXCEPT ![room].users = @ \ {c}]
    ELSE rooms

\* activeRooms.set(room, {hotelName, createdAt: new Date(), users: new Set()})
SetRoom(rooms, room, hotelName, t) ==
    [r \in DOMAIN rooms \cup {room} |->
        IF r = room
        THEN [hotelName |-> hotelName, createdAt |-> t, users |-> {}]
        ELSE rooms[r]]

\* activeRooms.delete(room)
DeleteRoom(rooms, room) ==
    [r \in DOMAIN rooms \ {room} |-> rooms[r]]

\* roomInfo.users.size
UserCount(roomInfo) == Cardinality(roomInfo.users)

\* the room_stats payload
RoomStats(rooms, room) ==
    [userCount |-> UserCount(rooms[room]), hotelName |-> rooms[room].hotelName]

\* the time since when each room is in the registry with no participant
\* (-1: not in the registry, or occupied), after a handler took the registry
\* to `rooms`
EmptySinceAfter(rooms) ==
    [r \in RoomIds |->
        IF r \in DOMAIN rooms /\ rooms[r].users = {}
        THEN IF emptySince[r] >= 0 THEN emptySince[r] ELSE now
        ELSE -1]

\* the methods of SarvamClient that call the remote API
ClientMethods == {"transcribe", "translate", "getSupportedLanguages"}

\* no response yet, no outcome yet
NoRemote == [kind |-> "none", status |-> 0, statusText |-> "", message |-> ""]
Pending == [pending |-> TRUE]

\* a method that has not been called
IdleCall ==
    [method |-> "none", args |-> <<>>, pc |-> "idle", remote |-> NoRemote,
     result |-> Pending]

-----------------------------------------------------------------------------
Init ==
    /\ connState = [c \in Conns |-> "new"]
    /\ activeRooms = <<>>
    /\ userRoles = <<>>
    /\ joined = [c \in Conns |-> {}]
    /\ generated = {}
    /\ timers = <<>>
    /\ now = 0
    /\ msgs = <<>>
    /\ log = <<>>
    /\ translated = <<>>
    /\ out = <<>>
    /\ lastOp = [op |-> "init"]
    /\ emptySince = [r \in RoomIds |-> -1]
    /\ client = [k \in ClientMethods |-> IdleCall]

\* io.on('connection', ...)
Connect(c) ==
    /\ connState[c] = "new"
    /\ connState' = [connState EXCEPT ![c] = "open"]
    /\ out' = <<>>
    /\ lastOp' = [op |-> "connection", conn |-> c]
    /\ UNCHANGED <<client, activeRooms, userRoles, joined, generated, timers, now,
                   msgs, log, translated, emptySince>>

\* app.post('/api/generate-room', ...): the id is built from the clock and a
\* random suffix, so it is one no room has had before
GenerateRoom(roomId, hotelName) ==
    /\ roomId \notin generated
    /\ roomId \notin DOMAIN activeRooms
    /\ activeRooms' = SetRoom(activeRooms, roomId, hotelName, now)
    /\ generated' = generated \cup {roomId}
    /\ emptySince' = EmptySinceAfter(activeRooms')
    /\ out' = <<>>
    /\ lastOp' = [op |-> "generate-room", room |-> roomId]
    /\ UNCHANGED <<client, connState, userRoles, joined, timers, now, msgs, log, translated>>

\* the room the socket's session names, or undefined
SessionRoom(roles, c) ==
    IF c \in DOMAIN roles THEN roles[c].room ELSE Undefined

\* a join_room that does not leave the previous room
LeavePreviousKept(rooms, prevRoom, c) == rooms

\* join_room, "Leave any previous room": the registry after it
LeavePrevious(rooms, prevRoom, c) ==
    IF ~Falsy(prevRoom) THEN DeleteUser(rooms, prevRoom, c) ELSE rooms

\* a join_room that sets up the room anew on every join
EnsureRoomAnew(rooms, room, t) ==
    SetRoom(rooms, room, "Unknown Hotel", t)

\* join_room, "Update room info": create the room if the registry lacks it
EnsureRoom(rooms, room, t) ==
    IF room \notin DOMAIN rooms
    THEN SetRoom(rooms, room, "Unknown Hotel", t)
    ELSE rooms

\* userRoles.set(c, session)
SetSession(roles, c, session) ==
    [x \in DOMAIN roles \cup {c} |-> IF x = c THEN session ELSE roles[x]]

\* userRoles.delete(c)
ClearSession(roles, c) ==
    [x \in DOMAIN roles \ {c} |-> roles[x]]

\* socket.on('join_room', ...)
JoinRoom(c, data) ==
    LET room == data.room
        role == data.role
        language == IF data.language = Undefined THEN "hi-IN" ELSE data.language
        prevRoom == SessionRoom(userRoles, c)
        jn == [joined EXCEPT ![c] =
                  (IF ~Falsy(prevRoom) THEN @ \ {prevRoom} ELSE @) \cup {room}]
        rooms == AddUser(EnsureRoom(LeavePrevious(activeRooms, prevRoom, c),
                                    room, now),
                         room, c)
    IN  /\ connState[c] = "open"
        /\ joined' = jn
        /\ userRoles' = SetSession(userRoles, c,
                            [room |-> room, role |-> role, language |-> language])
        /\ activeRooms' = rooms
        /\ emptySince' = EmptySinceAfter(rooms)
        /\ out' = << ToSocket(connState, c, "room_joined",
                        [room |-> room, role |-> role,
                         language |-> LanguageName(language)]),
                     ToOthers(jn, c, room, "user_joined",
                        [role |-> role, language |-> LanguageName(language),
                         userId |-> c]),
                     ToRoom(jn, room, "room_stats", RoomStats(rooms, room)) >>
        /\ lastOp' = [op |-> "join_room", conn |-> c, room |-> room,
                      prev |-> prevRoom]
        /\ UNCHANGED <<client, connState, generated, timers, now, msgs, log, translated>>

\* a get_room_info that creates the room it is asked about
GetRoomInfoCreates(c, room) ==
    /\ connState[c] = "open"
    /\ activeRooms' = EnsureRoom(activeRooms, room, now)
    /\ emptySince' = EmptySinceAfter(activeRooms')
    /\ out' = << ToSocket(connState, c, "room_info",
                    [hotelName |-> activeRooms'[room].hotelName,
                     userCount |-> UserCount(activeRooms'[room]),
                     createdAt |-> activeRooms'[room].createdAt]) >>
    /\ lastOp' = [op |-> "get_room_info", conn |-> c, room |-> room]
    /\ UNCHANGED <<client, connState, userRoles, joined, generated,
                   timers, now, msgs, log, translated>>

\* socket.on('get_room_info', ...)
GetRoomInfo(c, room) ==
    /\ connState[c] = "open"
    /\ out' = IF room \in DOMAIN activeRooms
              THEN << ToSocket(connState, c, "room_info",
                        [hotelName |-> activeRooms[room].hotelName,
                         userCount |-> UserCount(activeRooms[room]),
                         createdAt |-> activeRooms[room].createdAt]) >>
              ELSE <<>>
    /\ lastOp' = [op |-> "get_room_info", conn |-> c, room |-> room]
    /\ UNCHANGED <<client, connState, activeRooms, userRoles, joined, generated,
                   timers, now, msgs, log, translated, emptySince>>

\* room stats read before the socket is removed from the room
LeaveStatsStale(before, after, room) == RoomStats(before, room)

\* disconnect, "Send updated room stats": the payload, the registry being
\* `before` when the handler started and `after` once the socket is removed
LeaveStats(before, after, room) == RoomStats(after, room)

\* disconnect, "Clean up empty rooms after 5 minutes": the timers after the
\* handler
ScheduleCleanup(tm, rooms, room, t) ==
    IF UserCount(rooms[room]) = 0
    THEN Append(tm, [room |-> room, due |-> t + CleanupDelayMs])
    ELSE tm

\* socket.on('disconnect', ...); socket.io has taken the socket out of all
\* its rooms before the handler runs
Disconnect(c) ==
    LET jn == [joined EXCEPT ![c] = {}]
        cs == [connState EXCEPT ![c] = "closed"]
    IN  /\ connState[c] = "open"
        /\ connState' = cs
        /\ joined' = jn
        /\ IF c \in DOMAIN userRoles
           THEN LET room == userRoles[c].room
                    role == userRoles[c].role
                    rooms == DeleteUser(activeRooms, room, c)
                IN  /\ activeRooms' = rooms
                    /\ userRoles' = ClearSession(userRoles, c)
                    /\ IF room \in DOMAIN activeRooms
                       THEN /\ out' = << ToOthers(jn, c, room, "user_left",
                                            [role |-> role, userId |-> c]),
                                         ToRoom(jn, room, "room_stats",
                                            LeaveStats(activeRooms, rooms, room)) >>
                            /\ timers' = ScheduleCleanup(timers, rooms, room, now)
                       ELSE /\ out' = <<>>
                            /\ timers' = timers
                    /\ emptySince' = EmptySinceAfter(rooms)
                    /\ lastOp' = [op |-> "disconnect", conn |-> c, room |-> room]
           ELSE /\ out' = <<>>
                /\ lastOp' = [op |-> "disconnect", conn |-> c, room |-> Undefined]
                /\ UNCHANGED <<activeRooms, userRoles, timers, emptySince>>
        /\ UNCHANGED <<client, generated, now, msgs, log, translated>>

\* a cleanup timer that goes by the emptiness it was set for
CleanupDeletesSnapshot(rooms, room) ==
    room \in DOMAIN rooms

\* the cleanup timer's test, made when it fires
CleanupDeletes(rooms, room) ==
    room \in DOMAIN rooms /\ UserCount(rooms[room]) = 0

\* the setTimeout callback of the disconnect handler; timers of one delay fire
\* in the order they were set, none before it is due
CleanupTimer ==
    /\ timers # <<>>
    /\ Head(timers).due <= now
    /\ LET room == Head(timers).room
           del == CleanupDeletes(activeRooms, room)
           rooms == IF del THEN DeleteRoom(activeRooms, room) ELSE activeRooms
       IN  /\ activeRooms' = rooms
           /\ emptySince' = EmptySinceAfter(rooms)
           /\ lastOp' = [op |-> "cleanup", room |-> room, deleted |-> del,
                         emptyFor |-> IF emptySince[room] >= 0
                                      THEN now - emptySince[room] ELSE -1]
    /\ timers' = Tail(timers)
    /\ out' = <<>>
    /\ UNCHANGED <<client, connState, userRoles, joined, generated, now, msgs, log,
                   translated>>

\* time passes; a timer that is due fires before the clock moves on
Tick ==
    /\ now + TickMs <= MaxTicks * TickMs
    /\ timers # <<>> => Head(timers).due > now
    /\ now' = now + TickMs
    /\ out' = <<>>
    /\ lastOp' = [op |-> "tick"]
    /\ UNCHANGED <<client, connState, activeRooms, userRoles, joined, generated,
                   timers, msgs, log, translated, emptySince>>

-----------------------------------------------------------------------------
(* The translation provider (MockSarvamClient, SarvamClient) *)

\* the left operand of `v || d` is falsy: undefined, '', 0 or false, whatever
\* the type of v (values of different types are told apart by how they are
\* written)
FalsyValue(v) ==
    ToString(v) \in {ToString(Undefined), ToString(""), ToString(0),
                     ToString(FALSE)}

\* body.field || d: d when the body has no such field or a falsy one
FieldOr(body, field, d) ==
    IF field \in DOMAIN body /\ ~FalsyValue(body[field]) THEN body[field] ELSE d

\* transcription.confidence || d: d when the transcript has no confidence or a
\* confidence of 0
ConfidenceOr(transcription, d) == FieldOr(transcription, "confidence", d)

\* MockSarvamClient.transcribe: the result for a language code
MockTranscribe(languageCode) ==
    LET text == CASE languageCode = "hi-IN" -> "kitna paisa?"
                  [] languageCode = "bn-IN" -> "koto taka?"
                  [] languageCode = "ta-IN" -> "evvalavu panam?"
                  [] languageCode = "te-IN" -> "enta dabbu?"
                  [] languageCode = "en-IN" -> "How much money?"
                  [] OTHER -> "Sample text"
    IN  [transcript |-> text, confidence |-> 95, speaker_id |-> "speaker_1"]

\* the confidences, in hundredths, a provider reports with a transcript
ProviderConfidences == {0, 80, 95}

\* the transcripts a provider can hand to the audio handler for a language
\* code: the mock's text, with one of these confidences or with none
Transcripts(languageCode) ==
    LET t == MockTranscribe(languageCode)
    IN  {[transcript |-> t.transcript, speaker_id |-> t.speaker_id]}
        \cup {[t EXCEPT !.confidence = conf] : conf \in ProviderConfidences}

\* MockSarvamClient.translate: the result for a text (Hindi texts are written
\* in Latin letters here)
MockTranslate(text, sourceLanguage, targetLanguage) ==
    [text |-> CASE text = "kitna paisa?" -> "How much money?"
                [] text = "How much money?" -> "kitna paisa?"
                [] text = "Rs 3000" -> "Rs 3000"
                [] text = "Thank you" -> "dhanyavad"
                [] text = "dhanyavad" -> "Thank you"
                [] text = "Good morning" -> "suprabhat"
                [] text = "suprabhat" -> "Good morning"
                [] text = "Hello" -> "namaste"
                [] text = "namaste" -> "Hello"
                [] text = "I need a room" -> "mujhe ek kamra chahiye"
                [] text = "mujhe ek kamra chahiye" -> "I need a room"
                [] OTHER -> <<"Translated: ", text>>,
     source_language |-> sourceLanguage,
     target_language |-> targetLanguage]

\* how a request to the remote API ends: fetch rejects (transport), the
\* response is not ok (status), its body is no JSON (badjson), or it is ok
RemoteFailures ==
    {[kind |-> "transport", status |-> 0, statusText |-> "",
      message |-> "connect ECONNREFUSED"],
     [kind |-> "status", status |-> 401, statusText |-> "Unauthorized",
      message |-> ""],
     [kind |-> "status", status |-> 500, statusText |-> "Internal Server Error",
      message |-> ""],
     [kind |-> "badjson", status |-> 200, statusText |-> "OK",
      message |-> "invalid json response body"]}

RemoteOk == [kind |-> "ok", status |-> 200, statusText |-> "OK", message |-> ""]

\* the body handed to a method whose request failed: none was read
NoBody == [body |-> Undefined]

\* error.message in the catch blocks: the method's own error for a response
\* that is not ok, the message of fetch or of response.json() otherwise
ErrorMessage(remote) ==
    IF remote.kind = "status"
    THEN <<"Sarvam API error: ", remote.status, " ", remote.statusText>>
    ELSE <<remote.message>>

\* a method returns a value / throws an error
Returns(value) == [threw |-> FALSE, value |-> value]
Throws(message) == [threw |-> TRUE, error |-> message]

\* SarvamClient.transcribe: the outcome, `result` being the body of an ok
\* response; languageCode defaults to 'hi-IN' when it is not passed
SarvamTranscribe(languageCode, remote, result) ==
    LET code == IF languageCode = Undefined THEN "hi-IN" ELSE languageCode
        transcript == FieldOr(result, "transcript", "")
    IN  IF remote.kind = "ok"
        THEN Returns([transcript |-> transcript,
                      confidence |-> ConfidenceOr(result, 95),
                      language_code |-> FieldOr(result, "language_code", code),
                      diarized_transcript |->
                          FieldOr(result, "diarized_transcript",
                                  [entries |-> <<[speaker_id |-> "speaker_1",
                                                  text |-> transcript]>>])])
        ELSE Throws(<<"Failed to transcribe audio: ", ErrorMessage(remote)>>)

\* SarvamClient.translate: the outcome
SarvamTranslate(text, sourceLanguage, targetLanguage, remote, result) ==
    IF remote.kind = "ok"
    THEN Returns([text |-> FieldOr(result, "translated_text", text),
                  source_language |-> sourceLanguage,
                  target_language |-> targetLanguage,
                  confidence |-> ConfidenceOr(result, 95)])
    ELSE Throws(<<"Failed to translate text: ", ErrorMessage(remote)>>)

\* SarvamClient.getDefaultLanguages (native names in Latin letters)
GetDefaultLanguages ==
    << [code |-> "hi-IN", name |-> "Hindi", native |-> "Hindi"],
       [code |-> "bn-IN", name |-> "Bengali", native |-> "Bangla"],
       [code |-> "ta-IN", name |-> "Tamil", native |-> "Tamizh"],
       [code |-> "te-IN", name |-> "Telugu", native |-> "Telugu"],
       [code |-> "mr-IN", name |-> "Marathi", native |-> "Marathi"],
       [code |-> "gu-IN", name |-> "Gujarati", native |-> "Gujarati"],
       [code |-> "kn-IN", name |-> "Kannada", native |-> "Kannada"],
       [code |-> "ml-IN", name |-> "Malayalam", native |-> "Malayalam"],
       [code |-> "pa-IN", name |-> "Punjabi", native |-> "Panjabi"],
       [code |-> "or-IN", name |-> "Odia", native |-> "Odia"],
       [code |-> "en-IN", name |-> "English", native |-> "English"] >>

\* a getSupportedLanguages that fails as transcribe and translate do
GetSupportedLanguagesThrows(remote, result) ==
    IF remote.kind = "ok" THEN Returns(result)
    ELSE Throws(<<"Failed to fetch supported languages: ", ErrorMessage(remote)>>)

\* SarvamClient.getSupportedLanguages: the outcome
GetSupportedLanguages(remote, result) ==
    IF remote.kind = "ok" THEN Returns(result)
    ELSE Returns(GetDefaultLanguages)

\* a call that has been made and awaits fetch
Call(method, args) ==
    [method |-> method, args |-> args, pc |-> "fetch", remote |-> NoRemote,
     result |-> Pending]

\* a call is in flight while it awaits fetch or response.json()
InFlight(k) == client[k].pc \in {"fetch", "json"}

\* the methods are async: a call runs up to its `await fetch` and leaves the
\* caller with a promise, so calls of different methods overlap (here a method
\* is called again only when its last call has settled)
StartCall(k, args) ==
    /\ ~InFlight(k)
    /\ client' = [client EXCEPT ![k] = Call(k, args)]
    /\ UNCHANGED <<connState, activeRooms, userRoles, joined, generated, timers,
                   now, msgs, log, translated, out, lastOp, emptySince>>

\* a call of SarvamClient.transcribe (the audio buffer is only passed on)
CallTranscribe(languageCode) ==
    StartCall("transcribe", [languageCode |-> languageCode])

\* a call of SarvamClient.translate
CallTranslate(text, sourceLanguage, targetLanguage) ==
    StartCall("translate", [text |-> text, sourceLanguage |-> sourceLanguage,
                            targetLanguage |-> targetLanguage])

\* a call of SarvamClient.getSupportedLanguages
CallGetSupportedLanguages ==
    StartCall("getSupportedLanguages", <<>>)

\* what the call of a method comes to, given how its request ended
Outcome(call, remote, result) ==
    CASE call.method = "transcribe" ->
            SarvamTranscribe(call.args.languageCode, remote, result)
      [] call.method = "translate" ->
            SarvamTranslate(call.args.text, call.args.sourceLanguage,
                            call.args.targetLanguage, remote, result)
      [] call.method = "getSupportedLanguages" ->
            GetSupportedLanguages(remote, result)

\* the call's promise settles
Settle(k, remote, result) ==
    client' = [client EXCEPT ![k].pc = "settled", ![k].remote = remote,
                             ![k].result = Outcome(client[k], remote, result)]

\* `await fetch(...)` resumes: with an ok response the method goes on to
\* await response.json(); a rejection or a response that is not ok takes it
\* to its catch block
FetchReturns(k, remote) ==
    /\ client[k].pc = "fetch"
    /\ remote.kind \in {"ok", "transport", "status"}
    /\ IF remote.kind = "ok"
       THEN client' = [client EXCEPT ![k].pc = "json"]
       ELSE Settle(k, remote, NoBody)
    /\ UNCHANGED <<connState, activeRooms, userRoles, joined, generated, timers,
                   now, msgs, log, translated, out, lastOp, emptySince>>

\* `await response.json()` resumes with the parsed body, or rejects
JsonReturns(k, remote, result) ==
    /\ client[k].pc = "json"
    /\ remote.kind \in {"ok", "badjson"}
    /\ Settle(k, remote, IF remote.kind = "ok" THEN result ELSE NoBody)
    /\ UNCHANGED <<connState, activeRooms, userRoles, joined, generated, timers,
                   now, msgs, log, translated, out, lastOp, emptySince>>

-----------------------------------------------------------------------------
(* The message relay *)

\* the authorization check without the comparison of the rooms
NotAuthorizedSessionOnly(roles, c, room) ==
    c \notin DOMAIN roles

\* the authorization check of both message handlers:
\* !userInfo || userInfo.room !== data.room
NotAuthorized(roles, c, room) ==
    c \notin DOMAIN roles \/ roles[c].room # room

\* the events a handler emits for message m, as the log keeps them: which
\* event, with which status, addressed to which room or socket
Logged(m, events) ==
    [i \in 1..Len(events) |->
        [msg |-> m, ev |-> events[i].ev, target |-> events[i].target,
         status |-> IF events[i].ev = "processing_status"
                    THEN events[i].data.status ELSE Undefined]]

\* the reply to a message that fails the authorization check
Rejection(cs, c) ==
    << ToSocket(cs, c, "error", [message |-> "Not authorized for this room"]) >>

\* a catch block that tells only the sender
CatchBlockSenderOnly(cs, jn, c, room, message) ==
    << ToSocket(cs, c, "error", [message |-> message, error |-> "provider"]) >>

\* the catch block of a message handler
CatchBlock(cs, jn, c, room, message) ==
    << ToSocket(cs, c, "error", [message |-> message, error |-> "provider"]),
       ToRoom(jn, room, "processing_status", [status |-> "error"]) >>

\* a status broadcast that announces 'transcribing' whatever the step
StatusTranscribingOnly(jn, room, status, speaker) ==
    ToRoom(jn, room, "processing_status",
           [status |-> "transcribing", speaker |-> speaker])

\* io.to(data.room).emit('processing_status', {status, speaker})
Status(jn, room, status, speaker) ==
    ToRoom(jn, room, "processing_status", [status |-> status, speaker |-> speaker])

\* a try block that sends the translation to the room without the speaker
CompletionToOthers(jn, room, messageData) ==
    << ToOthers(jn, messageData.speakerId, room, "translation", messageData),
       ToRoom(jn, room, "processing_status", [status |-> "complete"]) >>

\* a try block that announces 'complete' before it sends the translation
CompletionStatusFirst(jn, room, messageData) ==
    << ToRoom(jn, room, "processing_status", [status |-> "complete"]),
       ToRoom(jn, room, "translation", messageData) >>

\* a try block that ends with the translation
CompletionWithoutStatus(jn, room, messageData) ==
    << ToRoom(jn, room, "translation", messageData) >>

\* the end of both handlers' try block: the translation, then 'complete'
Completion(jn, room, messageData) ==
    << ToRoom(jn, room, "translation", messageData),
       ToRoom(jn, room, "processing_status", [status |-> "complete"]) >>

\* the transcription of a handler that has none (yet)
NoTranscription == [transcript |-> Undefined]

\* a message as the server holds it: the payload, the sender, and where its
\* handler stands
NewMessage(kind, c, data, pc) ==
    [kind |-> kind, conn |-> c, data |-> data, pc |-> pc,
     transcribeCalls |-> 0, translateCalls |-> 0,
     transcription |-> NoTranscription, sourceLanguage |-> Undefined,
     targetLanguage |-> Undefined, failedIn |-> Undefined]

\* socket.on('audio_message', ...), up to `await sarvamClient.transcribe`
AudioMessage(c, data) ==
    LET m == Len(msgs) + 1
    IN  /\ connState[c] = "open"
        /\ Len(msgs) < MaxMsgs
        /\ IF NotAuthorized(userRoles, c, data.room)
           THEN /\ out' = Rejection(connState, c)
                /\ msgs' = Append(msgs, NewMessage("audio", c, data, "rejected"))
           ELSE /\ out' = << Status(joined, data.room, "transcribing", data.role) >>
                /\ msgs' = Append(msgs,
                              [NewMessage("audio", c, data, "transcribe")
                                  EXCEPT !.transcribeCalls = 1])
        /\ log' = Append(log, Logged(m, out'))
        /\ lastOp' = [op |-> "audio_message", conn |-> c, msg |-> m]
        /\ UNCHANGED <<client, connState, activeRooms, userRoles, joined, generated,
                       timers, now, translated, emptySince>>

\* the audio handler's target language
AudioTargetLanguage(data) ==
    IF data.role = "guest" THEN "en-IN"
    ELSE IF ~Falsy(data.guestLanguage) THEN data.guestLanguage ELSE "hi-IN"

\* the audio handler from the return of transcribe up to
\* `await sarvamClient.translate`
TranscribeReturn(m, transcription) ==
    /\ m \in 1..Len(msgs)
    /\ msgs[m].pc = "transcribe"
    /\ out' = << Status(joined, msgs[m].data.room, "translating", msgs[m].data.role) >>
    /\ msgs' = [msgs EXCEPT ![m].pc = "translate",
                            ![m].transcription = transcription,
                            ![m].sourceLanguage = msgs[m].data.language,
                            ![m].targetLanguage = AudioTargetLanguage(msgs[m].data),
                            ![m].translateCalls = @ + 1]
    /\ log' = [log EXCEPT ![m] = @ \o Logged(m, out')]
    /\ lastOp' = [op |-> "transcribed", msg |-> m]
    /\ UNCHANGED <<client, connState, activeRooms, userRoles, joined, generated,
                   timers, now, translated, emptySince>>

\* a source language that goes by the sender's session alone
TextSourceLanguageSessionOnly(data, userInfo) ==
    IF data.role = "guest" THEN userInfo.language ELSE "en-IN"

\* the text handler's source and target language
TextSourceLanguage(data, userInfo) ==
    IF ~Falsy(data.language) THEN data.language
    ELSE IF data.role = "guest" THEN userInfo.language ELSE "en-IN"

TextTargetLanguage(data, userInfo) ==
    IF data.role = "guest" THEN "en-IN"
    ELSE IF ~Falsy(userInfo.language) THEN userInfo.language ELSE "hi-IN"

\* socket.on('text_message', ...), up to `await sarvamClient.translate`
TextMessage(c, data) ==
    LET m == Len(msgs) + 1
    IN  /\ connState[c] = "open"
        /\ Len(msgs) < MaxMsgs
        /\ IF NotAuthorized(userRoles, c, data.room)
           THEN /\ out' = Rejection(connState, c)
                /\ msgs' = Append(msgs, NewMessage("text", c, data, "rejected"))
           ELSE /\ out' = << Status(joined, data.room, "translating", data.role) >>
                /\ msgs' = Append(msgs,
                              [NewMessage("text", c, data, "translate")
                                  EXCEPT !.sourceLanguage =
                                             TextSourceLanguage(data, userRoles[c]),
                                         !.targetLanguage =
                                             TextTargetLanguage(data, userRoles[c]),
                                         !.translateCalls = 1])
        /\ log' = Append(log, Logged(m, out'))
        /\ lastOp' = [op |-> "text_message", conn |-> c, msg |-> m]
        /\ UNCHANGED <<client, connState, activeRooms, userRoles, joined, generated,
                       timers, now, translated, emptySince>>

\* the messageData record of both handlers (without its random id and its
\* timestamp); confidence is in hundredths
MessageData(msg, translation) ==
    LET original == IF msg.kind = "audio" THEN msg.transcription.transcript
                    ELSE msg.data.text
    IN  [room |-> msg.data.room,
         speaker |-> msg.data.role,
         original |-> [text |-> original,
                       language |-> msg.sourceLanguage,
                       languageName |-> LanguageName(msg.sourceLanguage)],
         translated |-> [text |-> translation.text,
                         language |-> msg.targetLanguage,
                         languageName |-> LanguageName(msg.targetLanguage)],
         confidence |-> IF msg.kind = "audio"
                        THEN ConfidenceOr(msg.transcription, 95)
                        ELSE 100,
         speakerId |-> IF msg.kind = "audio" /\ ~Falsy(msg.transcription.speaker_id)
                       THEN msg.transcription.speaker_id ELSE msg.conn]

\* a handler that drops the result when the sender has left the room
AfterTranslateIfPresent(jn, msg, translation) ==
    IF msg.data.room \in jn[msg.conn]
    THEN Completion(jn, msg.data.room, MessageData(msg, translation))
    ELSE <<>>

\* a handler that emits the translation to the room and again to the sender
AfterTranslateTwice(jn, msg, translation) ==
    << ToRoom(jn, msg.data.room, "translation", MessageData(msg, translation)) >>
    \o Completion(jn, msg.data.room, MessageData(msg, translation))

\* what a handler emits once translate has returned
AfterTranslate(jn, msg, translation) ==
    Completion(jn, msg.data.room, MessageData(msg, translation))

\* both handlers from the return of translate to their end
TranslateReturn(m) ==
    /\ m \in 1..Len(msgs)
    /\ msgs[m].pc = "translate"
    /\ LET msg == msgs[m]
           text == IF msg.kind = "audio" THEN msg.transcription.transcript
                   ELSE msg.data.text
       IN  out' = AfterTranslate(joined, msg,
                     MockTranslate(text, msg.sourceLanguage, msg.targetLanguage))
    /\ msgs' = [msgs EXCEPT ![m].pc = "done"]
    /\ log' = [log EXCEPT ![m] = @ \o Logged(m, out')]
    /\ translated' = Append(translated, m)
    /\ lastOp' = [op |-> "translated", msg |-> m]
    /\ UNCHANGED <<client, connState, activeRooms, userRoles, joined, generated,
                   timers, now, emptySince>>

\* what a handler emits when a provider call throws
AfterFailure(cs, jn, msg) ==
    CatchBlock(cs, jn, msg.conn, msg.data.room,
               IF msg.kind = "audio" THEN "Failed to process audio message"
               ELSE "Failed to process text message")

\* a handler that makes a failed provider call once more before it gives up
ProviderFailsRetry(m) ==
    /\ m \in 1..Len(msgs)
    /\ msgs[m].pc \in {"transcribe", "translate"}
    /\ IF msgs[m].transcribeCalls + msgs[m].translateCalls < 2
       THEN /\ out' = <<>>
            /\ msgs' = IF msgs[m].pc = "transcribe"
                       THEN [msgs EXCEPT ![m].transcribeCalls = @ + 1]
                       ELSE [msgs EXCEPT ![m].translateCalls = @ + 1]
            /\ log' = log
       ELSE /\ out' = AfterFailure(connState, joined, msgs[m])
            /\ msgs' = [msgs EXCEPT ![m].pc = "failed", ![m].failedIn = msgs[m].pc]
            /\ log' = [log EXCEPT ![m] = @ \o Logged(m, out')]
    /\ lastOp' = [op |-> "provider_failed", msg |-> m]
    /\ UNCHANGED <<client, connState, activeRooms, userRoles, joined, generated,
                   timers, now, translated, emptySince>>

\* a provider call throws (SarvamClient.transcribe / translate: a non-success
\* response or a transport failure): the handler's catch block
ProviderFails(m) ==
    /\ m \in 1..Len(msgs)
    /\ msgs[m].pc \in {"transcribe", "translate"}
    /\ out' = AfterFailure(connState, joined, msgs[m])
    /\ msgs' = [msgs EXCEPT ![m].pc = "failed", ![m].failedIn = msgs[m].pc]
    /\ log' = [log EXCEPT ![m] = @ \o Logged(m, out')]
    /\ lastOp' = [op |-> "provider_failed", msg |-> m]
    /\ UNCHANGED <<client, connState, activeRooms, userRoles, joined, generated,
                   timers, now, translated, emptySince>>

-----------------------------------------------------------------------------
(* Specifications *)

\* join_room payloads naming one of `rooms`
JoinPayloads(rooms, roles, languages) ==
    [room : rooms, role : roles, language : languages]

\* audio_message payloads naming one of `rooms`
AudioPayloads(rooms, roles) ==
    [room : rooms, role : roles, language : {"hi-IN"},
     guestLanguage : {Undefined}, audioData : {"AAAA"}]

\* text_message payloads naming one of `rooms`
TextPayloads(rooms, roles) ==
    [room : rooms, role : roles, language : {Undefined}, text : {"namaste"}]

\* a provider call of message m completes
ProviderStep(m) ==
    \/ TranscribeReturn(m, MockTranscribe(msgs[m].data.language))
    \/ TranslateReturn(m)
    \/ ProviderFails(m)

\* the room registry over time: rooms are generated, joined, left and
\* cleaned up
NextRooms ==
    \/ \E c \in Conns : Connect(c)
    \/ \E r \in GenRooms, h \in HotelNames : GenerateRoom(r, h)
    \/ \E c \in Conns, data \in JoinPayloads({"r1"} \cup generated, Roles, {Undefined}) :
          JoinRoom(c, data)
    \/ \E c \in Conns, r \in {"r1"} \cup GenRooms : GetRoomInfo(c, r)
    \/ \E c \in Conns : Disconnect(c)
    \/ CleanupTimer
    \/ Tick

SpecRooms == Init /\ [][NextRooms]_vars

\* the same, with clients that name the falsy room id
NextFalsy ==
    \/ \E c \in Conns : Connect(c)
    \/ \E c \in Conns, data \in JoinPayloads({"", "r1"}, {"guest"}, JoinLanguages) :
          JoinRoom(c, data)
    \/ \E c \in Conns : Disconnect(c)
    \/ CleanupTimer
    \/ Tick

SpecFalsy == Init /\ [][NextFalsy]_vars

\* the rooms the relay's clients name in their messages; they join "r1"
RelayRooms == {"r1", "r2"}

\* the message relay: clients join, send messages and leave while the
\* provider answers or fails
NextRelay ==
    \/ \E c \in Conns : Connect(c)
    \/ \E c \in Conns, data \in JoinPayloads({"r1"}, {"host"}, {Undefined}) :
          JoinRoom(c, data)
    \/ \E c \in Conns : Disconnect(c)
    \/ \E c \in Conns, data \in AudioPayloads(RelayRooms, {"host"}) :
          AudioMessage(c, data)
    \/ \E c \in Conns, data \in TextPayloads(RelayRooms, {"host"}) :
          TextMessage(c, data)
    \/ \E m \in 1..MaxMsgs : ProviderStep(m)

SpecRelay == Init /\ [][NextRelay]_vars

\* the relay with one client that sends messages, while both join and leave
NextSettle ==
    \/ \E c \in Conns : Connect(c)
    \/ \E c \in Conns, data \in JoinPayloads({"r1"}, {"host"}, {Undefined}) :
          JoinRoom(c, data)
    \/ \E c \in Conns : Disconnect(c)
    \/ \E c \in {"c1"}, data \in AudioPayloads(RelayRooms, {"host"}) :
          AudioMessage(c, data)
    \/ \E c \in {"c1"}, data \in TextPayloads(RelayRooms, {"host"}) :
          TextMessage(c, data)
    \/ \E m \in 1..MaxMsgs : ProviderStep(m)

\* that relay with a provider whose calls all return or fail in the end
FairRelay ==
    Init /\ [][NextSettle]_vars /\ \A m \in 1..MaxMsgs : WF_vars(ProviderStep(m))

\* audio_message payloads with the given fields
AudioPayloadsOf(rooms, roles, languages, guestLanguages, audioData) ==
    [room : rooms, role : roles, language : languages,
     guestLanguage : guestLanguages, audioData : audioData]

\* text_message payloads with the given fields
TextPayloadsOf(rooms, roles, languages, texts) ==
    [room : rooms, role : roles, language : languages, text : texts]

\* one turn of a conversation: guests and hosts join r1 with or without a
\* language of their own, and one of them sends the first message of the room,
\* under either role and with or without the optional payload fields
NextLanguages ==
    \/ \E c \in Conns : Connect(c)
    \/ \E c \in Conns, data \in JoinPayloads({"r1"}, Roles, JoinLanguages) :
          JoinRoom(c, data)
    \/ \E c \in Conns : Disconnect(c)
    \/ \E c \in Conns,
          data \in AudioPayloadsOf({"r1"}, Roles, {"hi-IN", "en-IN"},
                                  {Undefined, "ta-IN"}, {"AAAA"}) :
          msgs = <<>> /\ AudioMessage(c, data)
    \/ \E c \in Conns,
          data \in TextPayloadsOf({"r1"}, Roles, {Undefined, "hi-IN"},
                                 {"namaste", "Hello"}) :
          msgs = <<>> /\ TextMessage(c, data)
    \/ \E m \in 1..MaxMsgs : ProviderStep(m)

SpecLanguages == Init /\ [][NextLanguages]_vars

\* one message of a guest in r1 whose payload may lack its text, its audio or
\* its language, with a provider that reports any confidence or none
NextPayloads ==
    \/ \E c \in Conns : Connect(c)
    \/ \E c \in Conns, data \in JoinPayloads({"r1"}, {"guest"}, {Undefined}) :
          JoinRoom(c, data)
    \/ \E c \in Conns : Disconnect(c)
    \/ \E c \in Conns,
          data \in AudioPayloadsOf({"r1"}, {"guest"}, {"hi-IN", Undefined},
                                  {Undefined}, {"AAAA", Undefined}) :
          msgs = <<>> /\ AudioMessage(c, data)
    \/ \E c \in Conns,
          data \in TextPayloadsOf({"r1"}, {"guest"}, {Undefined},
                                 {"namaste", Undefined}) :
          msgs = <<>> /\ TextMessage(c, data)
    \/ \E m \in 1..Len(msgs) : \E t \in Transcripts(msgs[m].data.language) :
          TranscribeReturn(m, t)
    \/ \E m \in 1..Len(msgs) : TranslateReturn(m)
    \/ \E m \in 1..Len(msgs) : ProviderFails(m)

SpecPayloads == Init /\ [][NextPayloads]_vars

\* the relay with a sender that moves: c1 sends messages to r1, joins r1 or r2
\* and disconnects while the provider is at work; c2 joins r1 and stays
NextMoves ==
    \/ \E c \in Conns : Connect(c)
    \/ \E c \in {"c1"}, data \in JoinPayloads(RelayRooms, {"host"}, {Undefined}) :
          JoinRoom(c, data)
    \/ \E c \in {"c2"}, data \in JoinPayloads({"r1"}, {"host"}, {Undefined}) :
          JoinRoom(c, data)
    \/ \E c \in {"c1"} : Disconnect(c)
    \/ \E c \in {"c1"}, data \in AudioPayloads({"r1"}, {"host"}) :
          AudioMessage(c, data)
    \/ \E c \in {"c1"}, data \in TextPayloads({"r1"}, {"host"}) :
          TextMessage(c, data)
    \/ \E m \in 1..MaxMsgs : ProviderStep(m)

\* that relay with a provider whose calls all return or fail in the end
FairMoves ==
    Init /\ [][NextMoves]_vars /\ \A m \in 1..MaxMsgs : WF_vars(ProviderStep(m))

\* the texts and the language codes SarvamClient is called with; transcribe
\* is also called without a language code
ClientTexts == {"Hello", "namaste", "Rs 3000"}
ClientLanguages == {"hi-IN", "en-IN", "ta-IN"}
TranscribeLanguages == {"hi-IN", "ta-IN", Undefined}

\* the bodies of the remote API's ok responses, as lists: fields may be
\* missing or falsy ('', 0, false)
TranscribeBodies ==
    << [transcript |-> "kitna paisa?"],
       [transcript |-> ""],
       [transcript |-> "kitna paisa?", confidence |-> 80],
       [transcript |-> "kitna paisa?", confidence |-> 0],
       [transcript |-> "", confidence |-> 80],
       [transcript |-> "", confidence |-> 0],
       [confidence |-> 80],
       [transcript |-> "kitna paisa?", language_code |-> "hi-IN"],
       [transcript |-> "kitna paisa?", language_code |-> ""],
       [transcript |-> "kitna paisa?",
        diarized_transcript |->
            [entries |-> <<[speaker_id |-> "speaker_2",
                            text |-> "kitna paisa?"]>>]],
       [transcript |-> "kitna paisa?", diarized_transcript |-> ""],
       [transcript |-> "kitna paisa?", diarized_transcript |-> 0],
       [transcript |-> "kitna paisa?", diarized_transcript |-> FALSE],
       [transcript |-> 0, confidence |-> FALSE, language_code |-> FALSE] >>
TranslateBodies ==
    << [translated_text |-> "namaste"],
       [translated_text |-> ""],
       [translated_text |-> "namaste", confidence |-> 80],
       [translated_text |-> "namaste", confidence |-> 0],
       [translated_text |-> "", confidence |-> 80],
       [translated_text |-> "", confidence |-> 0],
       [confidence |-> 80],
       [translated_text |-> 0, confidence |-> ""] >>
LanguageBodies ==
    << <<>>, <<[code |-> "hi-IN", name |-> "Hindi", native |-> "Hindi"]>> >>

\* the bodies an ok response to a method's request can have
Bodies(k) ==
    CASE k = "transcribe" -> TranscribeBodies
      [] k = "translate" -> TranslateBodies
      [] k = "getSupportedLanguages" -> LanguageBodies

\* SarvamClient on its own: its methods are called, and their calls overlap,
\* with a remote API that answers, refuses or cannot be reached
NextClient ==
    \/ \E l \in TranscribeLanguages : CallTranscribe(l)
    \/ \E t \in ClientTexts, sl \in ClientLanguages, tl \in ClientLanguages :
          CallTranslate(t, sl, tl)
    \/ CallGetSupportedLanguages
    \/ \E k \in ClientMethods, remote \in RemoteFailures \cup {RemoteOk} :
          FetchReturns(k, remote)
    \/ \E k \in ClientMethods, remote \in RemoteFailures \cup {RemoteOk} :
          \E i \in DOMAIN Bodies(k) : JsonReturns(k, remote, Bodies(k)[i])

SpecClient == Init /\ [][NextClient]_vars

\* the relay with clients that also ask for room information: both join r1,
\* ask about r1 and r2 and leave, c1 sends messages
NextInfo ==
    \/ \E c \in Conns : Connect(c)
    \/ \E c \in Conns, data \in JoinPayloads({"r1"}, {"host"}, {Undefined}) :
          JoinRoom(c, data)
    \/ \E c \in Conns, r \in RelayRooms : GetRoomInfo(c, r)
    \/ \E c \in Conns : Disconnect(c)
    \/ \E c \in {"c1"}, data \in AudioPayloads(RelayRooms, {"host"}) :
          AudioMessage(c, data)
    \/ \E c \in {"c1"}, data \in TextPayloads(RelayRooms, {"host"}) :
          TextMessage(c, data)
    \/ \E m \in 1..MaxMsgs : ProviderStep(m)

SpecInfo == Init /\ [][NextInfo]_vars

\* the whole server
Next ==
    \/ \E c \in Conns : Connect(c)
    \/ \E r \in GenRooms, h \in HotelNames : GenerateRoom(r, h)
    \/ \E c \in Conns, data \in JoinPayloads(ClientRooms \cup generated, Roles, JoinLanguages) :
          JoinRoom(c, data)
    \/ \E c \in Conns, r \in RoomIds : GetRoomInfo(c, r)
    \/ \E c \in Conns : Disconnect(c)
    \/ CleanupTimer
    \/ Tick
    \/ \E c \in Conns, data \in AudioPayloads(RoomIds, Roles) : AudioMessage(c, data)
    \/ \E c \in Conns, data \in TextPayloads(RoomIds, Roles) : TextMessage(c, data)
    \/ \E m \in 1..MaxMsgs : ProviderStep(m)

Spec == Init /\ [][Next]_vars

-----------------------------------------------------------------------------
(* Properties *)

\* the events of message m in the log that satisfy P
Events(m, P(_)) == {i \in 1..Len(log[m]) : P(log[m][i])}

IsErrorTo(c, e) == e.ev = "error" /\ e.target = c
IsStatus(s, e) == e.ev = "processing_status" /\ e.status = s
IsTranslation(e) == e.ev = "translation"
IsTerminal(e) == IsStatus("complete", e) \/ IsStatus("error", e)

\* message m was handled by the last step, which found its sender without a
\* session for the room the message names
JustRefused(m) ==
    /\ lastOp.op \in {"audio_message", "text_message"}
    /\ lastOp.msg = m
    /\ \/ msgs[m].conn \notin DOMAIN userRoles
       \/ userRoles[msgs[m].conn].room # msgs[m].data.room

\* C1: a message whose sender has no session, or a session for another room
\* than the message names, gets an 'error' event sent to the sender alone:
\* nothing is broadcast for it and no provider call is made, then or later.
C1_UnauthorizedIsRefused ==
    \A m \in 1..Len(msgs) :
        (JustRefused(m) \/ msgs[m].pc = "rejected") =>
            /\ msgs[m].pc = "rejected"
            /\ Len(log[m]) = 1
            /\ IsErrorTo(msgs[m].conn, log[m][1])
            /\ msgs[m].transcribeCalls = 0
            /\ msgs[m].translateCalls = 0
            /\ JustRefused(m) =>
                  /\ Len(out) = 1
                  /\ out[1].ev = "error"
                  /\ out[1].to = {msgs[m].conn}

\* a joined connection has just sent a message naming another room than its
\* session's, and was refused
C1_Witness ==
    \E m \in 1..Len(msgs) :
        /\ JustRefused(m)
        /\ msgs[m].conn \in DOMAIN userRoles
        /\ msgs[m].pc = "rejected"
        /\ out[1].ev = "error"

\* the room_stats events of the last handler addressed to room r
StatsTo(r) ==
    {i \in 1..Len(out) : out[i].ev = "room_stats" /\ out[i].target = r}

\* C2: a cleanup timer deletes a room only if the room has been empty, without
\* a break, for the whole cleanup delay.
C2_NoEarlyDeletion ==
    (lastOp.op = "cleanup" /\ lastOp.deleted) => lastOp.emptyFor >= CleanupDelayMs

\* C3: a room that has been empty, without a break, for longer than the
\* cleanup delay is no longer in the registry, however it became empty.
C3_EmptyRoomsAreDeleted ==
    \A r \in DOMAIN activeRooms :
        activeRooms[r].users = {} => now - emptySince[r] <= CleanupDelayMs

\* C4: no step deletes a room that has a participant: a cleanup timer goes by
\* the participants the room has when the timer fires.
C4_OccupiedRoomSurvives ==
    [][\A r \in DOMAIN activeRooms :
          activeRooms[r].users # {} => r \in DOMAIN activeRooms']_vars

\* a cleanup timer has fired on a room that was emptied, then joined again,
\* and the room is still there with its participant
C4_Witness ==
    /\ lastOp.op = "cleanup"
    /\ ~lastOp.deleted
    /\ lastOp.room \in DOMAIN activeRooms
    /\ activeRooms[lastOp.room].users # {}

\* C5: the userCount of every room_stats and room_info event is the size of
\* the room's participant set when the event is emitted (the handlers change
\* no participant set after they emit it); a room_info event is about the
\* room the get_room_info request named.
C5_UserCountIsLive ==
    \A i \in 1..Len(out) :
        /\ out[i].ev = "room_stats" =>
              /\ out[i].target \in DOMAIN activeRooms
              /\ out[i].data.userCount =
                    Cardinality(activeRooms[out[i].target].users)
        /\ out[i].ev = "room_info" =>
              /\ lastOp.op = "get_room_info"
              /\ lastOp.room \in DOMAIN activeRooms
              /\ out[i].data.userCount =
                    Cardinality(activeRooms[lastOp.room].users)

\* a socket has left a room of two, and the room is told it has one
\* participant
C5_Witness ==
    /\ lastOp.op = "disconnect"
    /\ \E i \in 1..Len(out) :
          /\ out[i].ev = "room_stats"
          /\ out[i].data.userCount = 1
          /\ out[i].to # {}

\* C6: a handler that removes a socket from a room's participant set, the
\* disconnect handler or a join_room that moves the socket to another room,
\* broadcasts room_stats with the new count to the room the socket left.
C6_LeaveIsAnnounced ==
    /\ (lastOp.op = "disconnect" /\ lastOp.room \in DOMAIN activeRooms) =>
          \E i \in StatsTo(lastOp.room) :
              out[i].data.userCount = Cardinality(activeRooms[lastOp.room].users)
    /\ (/\ lastOp.op = "join_room"
        /\ ~Falsy(lastOp.prev)
        /\ lastOp.prev # lastOp.room
        /\ lastOp.prev \in DOMAIN activeRooms) =>
          \E i \in StatsTo(lastOp.prev) :
              out[i].data.userCount = Cardinality(activeRooms[lastOp.prev].users)

\* the rooms with a non-empty id whose participant set holds socket c
RoomsOf(c) ==
    {r \in DOMAIN activeRooms : ~Falsy(r) /\ c \in activeRooms[r].users}

\* C7: leaving aside the empty room id, a socket is in the participant set of
\* the room its session names and of no other; a join_room sets the session to
\* the room joined and takes the socket out of the room it was in; after
\* disconnect the socket has no session and is in no participant set.
C7_OneRoomPerConnection ==
    \A c \in Conns :
        /\ RoomsOf(c) = IF c \in DOMAIN userRoles /\ ~Falsy(userRoles[c].room)
                        THEN {userRoles[c].room} ELSE {}
        /\ connState[c] # "open" => c \notin DOMAIN userRoles
        /\ (lastOp.op = "join_room" /\ lastOp.conn = c) =>
              /\ c \in DOMAIN userRoles
              /\ userRoles[c].room = lastOp.room
              /\ lastOp.prev # lastOp.room => lastOp.prev \notin RoomsOf(c)

\* a socket that was in r1 has joined another room: its session names that
\* room and r1, still in the registry, no longer holds it
C7_Witness ==
    \E c \in Conns :
        /\ lastOp.op = "join_room" /\ lastOp.conn = c
        /\ lastOp.prev = "r1" /\ lastOp.room # "r1"
        /\ userRoles[c].room = lastOp.room
        /\ "r1" \in DOMAIN activeRooms
        /\ c \notin activeRooms["r1"].users

\* message m passed the authorization check
Authorized(m) == m \in 1..Len(msgs) /\ msgs[m].pc # "rejected"

\* message m is suspended at a provider call
Suspended(m) == m \in 1..Len(msgs) /\ msgs[m].pc \in {"transcribe", "translate"}

\* the number of terminal statuses broadcast for message m
Terminals(m) ==
    IF m \in 1..Len(msgs) THEN Cardinality(Events(m, IsTerminal)) ELSE 0

\* C8: for a message whose translate call failed, the sender is sent an
\* 'error' event and the message's room the status 'error'; no translation
\* and no status 'complete' is emitted for it.
C8_TranslateFailure ==
    \A m \in 1..Len(msgs) :
        (msgs[m].pc = "failed" /\ msgs[m].failedIn = "translate") =>
            /\ Events(m, LAMBDA e : IsErrorTo(msgs[m].conn, e)) # {}
            /\ \E i \in Events(m, LAMBDA e : IsStatus("error", e)) :
                  log[m][i].target = msgs[m].data.room
            /\ Events(m, IsTranslation) = {}
            /\ Events(m, LAMBDA e : IsStatus("complete", e)) = {}

\* the translate call of an audio message has just failed, after its
\* transcription had succeeded
C8_Witness ==
    \E m \in 1..Len(msgs) :
        /\ lastOp.op = "provider_failed" /\ lastOp.msg = m
        /\ msgs[m].kind = "audio"
        /\ msgs[m].failedIn = "translate"
        /\ msgs[m].translateCalls = 1

\* C9: with a provider whose calls all return or fail, every message that
\* passed the authorization check gets one terminal status, 'complete' or
\* 'error', and at no time more than one.
C9_OneTerminalStatus ==
    /\ \A m \in 1..MaxMsgs : Authorized(m) ~> (Terminals(m) = 1)
    /\ [](\A m \in 1..MaxMsgs : Terminals(m) <= 1)

\* one message has ended with 'complete' and another with 'error'
C9_Witness ==
    \E m1, m2 \in 1..Len(msgs) :
        /\ msgs[m1].pc = "done" /\ Terminals(m1) = 1
        /\ msgs[m2].pc = "failed" /\ Terminals(m2) = 1
        /\ Events(m2, LAMBDA e : IsStatus("transcribing", e)) # {}

\* the place of message m in the order of the translations broadcast (0: none)
TranslatedAt(m) ==
    IF \E i \in 1..Len(translated) : translated[i] = m
    THEN CHOOSE i \in 1..Len(translated) : translated[i] = m
    ELSE 0

\* the last step handled an event of connection c
HandledEventOf(c) ==
    /\ lastOp.op \in {"join_room", "audio_message", "text_message", "disconnect"}
    /\ lastOp.conn = c

\* C10 as the spec states it: no event of a connection is handled while an
\* earlier message of that connection is suspended at the provider, and the
\* translations of a connection's messages are broadcast in the order the
\* messages were sent.
C10_PerConnectionSerial ==
    /\ \A m \in 1..Len(msgs) :
          (HandledEventOf(msgs[m].conn) /\ Suspended(m)) =>
              (lastOp.op \in {"audio_message", "text_message"} /\ lastOp.msg = m)
    /\ \A m1, m2 \in 1..Len(msgs) :
          (m1 < m2 /\ msgs[m1].conn = msgs[m2].conn /\ TranslatedAt(m2) > 0) =>
              (~Suspended(m1) /\ TranslatedAt(m1) <= TranslatedAt(m2))

\* C10, amended: every message has taken its first step (the rejection, or
\* the first status broadcast to its room) by the time a later event is
\* handled, and gets at most one translation, after its 'translating' status;
\* the order of the translations is left open.
C10_FirstStepInOrder ==
    \A m \in 1..Len(msgs) :
        /\ Len(log[m]) >= 1
        /\ Authorized(m) =>
              /\ log[m][1].target = msgs[m].data.room
              /\ IsStatus(IF msgs[m].kind = "audio" THEN "transcribing"
                          ELSE "translating", log[m][1])
        /\ Cardinality(Events(m, IsTranslation)) <= 1
        /\ \A i \in Events(m, IsTranslation) :
              \E j \in 1..(i - 1) : IsStatus("translating", log[m][j])

\* two messages of one connection, the later one translated first
C10_Witness ==
    \E m1, m2 \in 1..Len(msgs) :
        /\ m1 < m2
        /\ msgs[m1].conn = msgs[m2].conn
        /\ TranslatedAt(m1) > TranslatedAt(m2)
        /\ TranslatedAt(m2) > 0

\* the last step resolved the languages of message m: the text handler's
\* first step, or the audio handler's step after the transcription
JustResolved(m) ==
    /\ m \in 1..Len(msgs)
    /\ \/ lastOp.op = "text_message" /\ lastOp.msg = m /\ msgs[m].pc = "translate"
       \/ lastOp.op = "transcribed" /\ lastOp.msg = m

\* the languages the guests of a room declared when they joined it
GuestLanguages(room) ==
    {userRoles[c].language :
        c \in {x \in DOMAIN userRoles :
                  userRoles[x].room = room /\ userRoles[x].role = "guest"}}

\* the languages that count as declared for the guest of message m's room:
\* those of the room's guests and the guestLanguage the payload carries, or
\* 'hi-IN' when there is neither
DeclaredGuestLanguages(m) ==
    LET named == IF msgs[m].kind = "audio" /\ ~Falsy(msgs[m].data.guestLanguage)
                 THEN {msgs[m].data.guestLanguage} ELSE {}
        all == GuestLanguages(msgs[m].data.room) \cup named
    IN  IF all = {} THEN {"hi-IN"} ELSE all

\* C11: a message sent under another role than 'guest', audio or text, is
\* translated into the language declared for the guest of its room, 'hi-IN'
\* when none is declared.
C11_TargetIsGuestLanguage ==
    \A m \in 1..Len(msgs) :
        (JustResolved(m) /\ msgs[m].data.role # "guest") =>
            msgs[m].targetLanguage \in DeclaredGuestLanguages(m)

\* what C12 says the source language of a text message is
C12_TextSource(m) ==
    IF msgs[m].data.language # Undefined THEN msgs[m].data.language
    ELSE IF msgs[m].data.role = "guest"
         THEN userRoles[msgs[m].conn].language ELSE "en-IN"

\* C12: a message sent under the role 'guest' is translated into 'en-IN',
\* audio or text, whatever language and guestLanguage its payload carries; a
\* text message is translated from the payload's language when there is one,
\* else from the sender's session language for a guest and from 'en-IN' for
\* any other role.  The translation event shows these languages.
C12_GuestTargetAndTextSource ==
    \A m \in 1..Len(msgs) :
        /\ (JustResolved(m) /\ msgs[m].data.role = "guest") =>
              msgs[m].targetLanguage = "en-IN"
        /\ (JustResolved(m) /\ msgs[m].kind = "text") =>
              msgs[m].sourceLanguage = C12_TextSource(m)
        /\ (lastOp.op = "translated" /\ lastOp.msg = m) =>
              /\ out[1].ev = "translation"
              /\ out[1].data.translated.language = msgs[m].targetLanguage
              /\ out[1].data.original.language = msgs[m].sourceLanguage
              /\ msgs[m].data.role = "guest" =>
                    out[1].data.translated.language = "en-IN"

\* a guest who joined with 'en-IN' has sent a text with the payload language
\* 'hi-IN': it is translated from 'hi-IN' into 'en-IN'
C12_Witness ==
    \E m \in 1..Len(msgs) :
        /\ lastOp.op = "translated" /\ lastOp.msg = m
        /\ msgs[m].kind = "text" /\ msgs[m].data.role = "guest"
        /\ msgs[m].data.language = "hi-IN"
        /\ msgs[m].conn \in DOMAIN userRoles
        /\ userRoles[msgs[m].conn].language = "en-IN"
        /\ out[1].data.original.language = "hi-IN"
        /\ out[1].data.translated.language = "en-IN"

\* C13: the translation record of a text message has confidence 1.0; that of
\* an audio message has the confidence its transcript reports, or 0.95 when
\* the transcript carries none (confidences are in hundredths).
C13_Confidence ==
    \A m \in 1..Len(msgs) :
        (lastOp.op = "translated" /\ lastOp.msg = m) =>
            /\ out[1].ev = "translation"
            /\ out[1].data.confidence =
                  IF msgs[m].kind = "text" THEN 100
                  ELSE IF "confidence" \in DOMAIN msgs[m].transcription
                       THEN msgs[m].transcription.confidence
                       ELSE 95

\* message m comes from a connection that has joined the room it names, and
\* lacks a field its handler needs
Malformed(m) ==
    /\ m \in 1..Len(msgs)
    /\ msgs[m].pc # "rejected"
    /\ \/ msgs[m].kind = "text" /\ msgs[m].data.text = Undefined
       \/ msgs[m].kind = "audio" /\ msgs[m].data.audioData = Undefined
       \/ msgs[m].kind = "audio" /\ msgs[m].data.language = Undefined

\* C14: a malformed message of a joined connection is rejected before any
\* provider call: the sender is sent a notice and nothing goes to the room.
C14_MalformedIsRejected ==
    \A m \in 1..Len(msgs) :
        Malformed(m) =>
            /\ msgs[m].transcribeCalls = 0
            /\ msgs[m].translateCalls = 0
            /\ Len(log[m]) = 1
            /\ log[m][1].target = msgs[m].conn

\* the provider calls made for message m are those of one attempt
SingleAttempt(m) ==
    /\ msgs[m].transcribeCalls <= 1
    /\ msgs[m].translateCalls <= 1
    /\ msgs[m].kind = "text" => msgs[m].transcribeCalls = 0
    /\ msgs[m].pc = "rejected" =>
          msgs[m].transcribeCalls + msgs[m].translateCalls = 0
    /\ (msgs[m].pc = "failed" /\ msgs[m].failedIn = "transcribe") =>
          (msgs[m].transcribeCalls = 1 /\ msgs[m].translateCalls = 0)
    /\ (msgs[m].pc = "failed" /\ msgs[m].failedIn = "translate") =>
          msgs[m].translateCalls = 1

\* C15: a message triggers at most one transcribe call and at most one
\* translate call, a text message no transcribe call; once a provider call of
\* a message has failed, no step makes a call for that message again.
C15_NoRetry ==
    /\ [](\A m \in 1..Len(msgs) : SingleAttempt(m))
    /\ [][\A m \in 1..Len(msgs) :
             msgs[m].pc = "failed" => msgs'[m] = msgs[m]]_vars

\* the transcription of an audio message failed, and the server has since
\* translated a later text message without calling the provider again for
\* the failed one
C15_Witness ==
    \E m1, m2 \in 1..Len(msgs) :
        /\ m1 < m2
        /\ msgs[m1].kind = "audio" /\ msgs[m1].pc = "failed"
        /\ msgs[m1].transcribeCalls = 1 /\ msgs[m1].translateCalls = 0
        /\ msgs[m2].kind = "text" /\ msgs[m2].translateCalls = 1
        /\ lastOp.op = "translated" /\ lastOp.msg = m2

\* the sender of message m has disconnected or joined another room
SenderLeft(m) ==
    /\ m \in 1..Len(msgs)
    /\ NotAuthorized(userRoles, msgs[m].conn, msgs[m].data.room)

\* the translation and the status 'complete' of message m went to its room
Delivered(m) ==
    /\ \E i \in Events(m, IsTranslation) : log[m][i].target = msgs[m].data.room
    /\ \E i \in Events(m, LAMBDA e : IsStatus("complete", e)) :
          log[m][i].target = msgs[m].data.room

\* C16: a disconnect or a join_room of the sender changes nothing about its
\* messages in flight; a message that passed the authorization check and
\* whose sender has left still gets its terminal status, and when its
\* provider calls succeed its translation and 'complete' are broadcast to the
\* room the message names, to whoever is in that room then.
C16_NoCancellation ==
    /\ [][lastOp'.op \in {"disconnect", "join_room"} =>
             (msgs' = msgs /\ log' = log)]_vars
    /\ [](\A m \in 1..Len(msgs) :
            /\ msgs[m].pc = "done" => Delivered(m)
            /\ (lastOp.op = "translated" /\ lastOp.msg = m) =>
                  \A i \in 1..Len(out) :
                      /\ out[i].target = msgs[m].data.room
                      /\ out[i].to = Members(joined, msgs[m].data.room))
    /\ \A m \in 1..MaxMsgs :
          (Suspended(m) /\ SenderLeft(m)) ~> (Terminals(m) = 1)

\* c1 moved to r2 while its message to r1 was at the provider: the
\* translation has just been broadcast to r1, where c2 receives it and c1
\* does not
C16_Witness ==
    \E m \in 1..Len(msgs) :
        /\ lastOp.op = "translated" /\ lastOp.msg = m
        /\ msgs[m].conn \in DOMAIN userRoles
        /\ userRoles[msgs[m].conn].room = "r2"
        /\ msgs[m].data.room = "r1"
        /\ out[1].ev = "translation"
        /\ out[1].to = Conns \ {msgs[m].conn}

\* host a, who joined with 'en-IN', and guest b, who joined with 'hi-IN', are
\* in r1, and message m is b's text 'namaste'
HostAndGuest(a, b, m) ==
    /\ a # b
    /\ a \in DOMAIN userRoles /\ b \in DOMAIN userRoles
    /\ userRoles[a] = [room |-> "r1", role |-> "host", language |-> "en-IN"]
    /\ userRoles[b] = [room |-> "r1", role |-> "guest", language |-> "hi-IN"]
    /\ msgs[m].conn = b
    /\ msgs[m].kind = "text"
    /\ msgs[m].data.room = "r1" /\ msgs[m].data.role = "guest"
    /\ msgs[m].data.text = "namaste"

\* C17: the translation of a message is delivered once, to every participant
\* its room has when it is broadcast, the sender among them if still there.
\* With host a ('en-IN') and guest b ('hi-IN') in r1, b's text 'namaste' is
\* taken as 'hi-IN' to be translated into 'en-IN', and a and b both receive
\* the translation 'Hello' with these languages and confidence 1.0.
C17_DeliveredToAll ==
    \A m \in 1..Len(msgs) :
        /\ (lastOp.op = "text_message" /\ lastOp.msg = m) =>
              \A a, b \in Conns :
                  HostAndGuest(a, b, m) =>
                      /\ msgs[m].pc = "translate"
                      /\ msgs[m].sourceLanguage = "hi-IN"
                      /\ msgs[m].targetLanguage = "en-IN"
        /\ (lastOp.op = "translated" /\ lastOp.msg = m) =>
              /\ out[1].ev = "translation"
              /\ Cardinality(Events(m, IsTranslation)) = 1
              /\ \A c \in Conns :
                    (/\ msgs[m].data.room \in DOMAIN activeRooms
                     /\ c \in activeRooms[msgs[m].data.room].users) =>
                        c \in out[1].to
              /\ out[1].data.original.language = msgs[m].sourceLanguage
              /\ out[1].data.translated.language = msgs[m].targetLanguage
              /\ \A a, b \in Conns :
                    HostAndGuest(a, b, m) =>
                        /\ out[1].to = {a, b}
                        /\ out[1].data.original.text = "namaste"
                        /\ out[1].data.translated.text = "Hello"
                        /\ out[1].data.confidence = 100

\* the translation of the guest's 'namaste' has just been broadcast to the
\* host and the guest: 'Hello', from 'hi-IN' into 'en-IN'
C17_Witness ==
    \E m \in 1..Len(msgs), a, b \in Conns :
        /\ lastOp.op = "translated" /\ lastOp.msg = m
        /\ HostAndGuest(a, b, m)
        /\ out[1].to = {a, b}
        /\ out[1].data.original.language = "hi-IN"
        /\ out[1].data.translated.text = "Hello"
        /\ out[1].data.translated.language = "en-IN"

\* message m got one 'translating' status, one translation and one 'complete'
\* of its own, all addressed to its room
FullyAnnounced(m) ==
    /\ Cardinality(Events(m, LAMBDA e : IsStatus("translating", e))) = 1
    /\ Cardinality(Events(m, IsTranslation)) = 1
    /\ Cardinality(Events(m, LAMBDA e : IsStatus("complete", e))) = 1
    /\ \A i \in 1..Len(log[m]) :
          log[m][i].ev # "error" => log[m][i].target = msgs[m].data.room
    /\ Cardinality({i \in 1..Len(translated) : translated[i] = m}) = 1

\* C18: messages of different connections to one room are not serialized:
\* whichever of them is translated first, every message whose provider calls
\* succeeded gets its own 'translating' status, translation and 'complete';
\* a later message being translated before an earlier one is reachable.
C18_EachMessageComplete ==
    \A m \in 1..Len(msgs) :
        /\ msgs[m].pc = "done" => FullyAnnounced(m)
        /\ TranslatedAt(m) > 0 => msgs[m].pc = "done"

\* an audio message of one connection and a later text message of another,
\* both to r1: the text was translated first, and each got its own events
C18_Witness ==
    \E m1, m2 \in 1..Len(msgs) :
        /\ m1 < m2
        /\ msgs[m1].conn # msgs[m2].conn
        /\ msgs[m1].data.room = "r1" /\ msgs[m2].data.room = "r1"
        /\ msgs[m1].kind = "audio" /\ msgs[m2].kind = "text"
        /\ TranslatedAt(m2) > 0
        /\ TranslatedAt(m2) < TranslatedAt(m1)
        /\ FullyAnnounced(m1) /\ FullyAnnounced(m2)

\* the call of method k has settled
Settled(k) == client[k].pc = "settled"

\* the remote call of method k got a non-success response or failed in
\* transport
RemoteFailed(k) ==
    Settled(k) /\ client[k].remote.kind \in {"status", "transport"}

\* C19: getSupportedLanguages never fails; when the remote call gets a
\* non-success response or fails in transport it returns the fallback list of
\* 11 languages, while transcribe and translate fail with an error then.
C19_LanguagesFallBack ==
    /\ Settled("getSupportedLanguages") =>
          LET result == client["getSupportedLanguages"].result
          IN  /\ ~result.threw
              /\ RemoteFailed("getSupportedLanguages") =>
                    /\ result.value = GetDefaultLanguages
                    /\ Len(result.value) = 11
                    /\ \A i, j \in 1..Len(result.value) :
                          i # j => result.value[i].code # result.value[j].code
    /\ \A k \in {"transcribe", "translate"} :
          RemoteFailed(k) => client[k].result.threw

\* getSupportedLanguages has returned the 11 fallback languages after a
\* non-success response, while a call of translate is still in flight and a
\* call of transcribe has failed in transport
C19_Witness ==
    /\ Settled("getSupportedLanguages")
    /\ client["getSupportedLanguages"].remote.kind = "status"
    /\ ~client["getSupportedLanguages"].result.threw
    /\ Len(client["getSupportedLanguages"].result.value) = 11
    /\ client["translate"].pc = "json"
    /\ RemoteFailed("transcribe")
    /\ client["transcribe"].result.threw

\* the room-wide events of message m, in the order emitted: 'translation', or
\* the status announced
RoomWide(m) ==
    LET S == SelectSeq(log[m], LAMBDA e : e.target = msgs[m].data.room)
    IN  [i \in 1..Len(S) |->
            IF S[i].ev = "processing_status" THEN S[i].status ELSE S[i].ev]

\* the statuses a handler announces before it calls translate
UpToTranslating(kind) ==
    IF kind = "audio" THEN <<"transcribing", "translating">>
    ELSE <<"translating">>

\* the room-wide events C20 allows for a message, given how far its handler
\* has come
EventsSoFar(msg) ==
    CASE msg.pc = "rejected" -> <<>>
      [] msg.pc = "transcribe" -> <<"transcribing">>
      [] msg.pc = "translate" -> UpToTranslating(msg.kind)
      [] msg.pc = "done" ->
            UpToTranslating(msg.kind) \o <<"translation", "complete">>
      [] msg.pc = "failed" /\ msg.failedIn = "transcribe" ->
            <<"transcribing", "error">>
      [] msg.pc = "failed" /\ msg.failedIn = "translate" ->
            UpToTranslating(msg.kind) \o <<"error">>

\* C20: the room-wide events of an audio message are, in this order,
\* 'transcribing', 'translating' (once transcribe has returned), the
\* translation and 'complete'; those of a text message 'translating', the
\* translation and 'complete'.  A failure ends the sequence with 'error', and
\* when it is the transcription that fails, right after 'transcribing'.
C20_EventOrder ==
    \A m \in 1..Len(msgs) :
        /\ RoomWide(m) = EventsSoFar(msgs[m])
        /\ msgs[m].kind = "audio" =>
              (msgs[m].translateCalls > 0 => msgs[m].transcribeCalls = 1)

\* an audio message has just gone through all four events, after a text
\* message that went through its three
C20_Witness ==
    \E m1, m2 \in 1..Len(msgs) :
        /\ lastOp.op = "translated" /\ lastOp.msg = m2
        /\ msgs[m2].kind = "audio"
        /\ RoomWide(m2) = <<"transcribing", "translating", "translation", "complete">>
        /\ msgs[m1].kind = "text"
        /\ RoomWide(m1) = <<"translating", "translation", "complete">>

\* C21: a join_room on a room the registry lacks creates it with the label
\* 'Unknown Hotel' and the joiner as its only participant; on a room the
\* registry has, it keeps the room's label and creation time and adds the
\* joiner to its participants; no room but the one joined and the one the
\* joiner was in changes, and none is removed.
C21_JoinRoomFrame ==
    [][lastOp'.op = "join_room" =>
          LET room == lastOp'.room
              c == lastOp'.conn
          IN  /\ DOMAIN activeRooms' = DOMAIN activeRooms \cup {room}
              /\ room \notin DOMAIN activeRooms =>
                    /\ activeRooms'[room].hotelName = "Unknown Hotel"
                    /\ activeRooms'[room].users = {c}
              /\ room \in DOMAIN activeRooms =>
                    /\ activeRooms'[room].hotelName = activeRooms[room].hotelName
                    /\ activeRooms'[room].createdAt = activeRooms[room].createdAt
                    /\ activeRooms'[room].users = activeRooms[room].users \cup {c}
              /\ \A r \in DOMAIN activeRooms \ {room, lastOp'.prev} :
                    activeRooms'[r] = activeRooms[r]]_vars

\* a socket has just joined the generated room g1, which keeps its label and
\* its earlier creation time, while r1, created by a join, is labelled
\* 'Unknown Hotel' and still has its participant
C21_Witness ==
    /\ lastOp.op = "join_room" /\ lastOp.room = "g1"
    /\ activeRooms["g1"].hotelName = "Taj"
    /\ activeRooms["g1"].createdAt < now
    /\ activeRooms["g1"].users = {lastOp.conn}
    /\ "r1" \in DOMAIN activeRooms
    /\ activeRooms["r1"].hotelName = "Unknown Hotel"
    /\ activeRooms["r1"].users # {}

\* the steps of the message handlers and of get_room_info
MessageOps ==
    {"audio_message", "text_message", "transcribed", "translated",
     "provider_failed", "get_room_info"}

\* C22: no step of an audio_message or text_message handler, be the message
\* rejected, translated or failed in the provider, and no get_room_info
\* changes the room registry or the session map.
C22_MessagesKeepRegistry ==
    [][lastOp'.op \in MessageOps =>
          (activeRooms' = activeRooms /\ userRoles' = userRoles)]_vars

\* a provider call of a message has just failed while both sockets are in r1,
\* after one of them asked for the room's information
C22_Witness ==
    \E m \in 1..Len(msgs) :
        /\ lastOp.op = "provider_failed" /\ lastOp.msg = m
        /\ "r1" \in DOMAIN activeRooms
        /\ activeRooms["r1"].users = Conns
        /\ DOMAIN userRoles = Conns
        /\ \E k \in 1..Len(msgs) : msgs[k].pc = "rejected"

====
